---- MODULE Spec2Model ----
(***************************************************************************)
(* Model of minesweeper.py: the Minesweeper board (mine placement and the  *)
(* neighbour-count oracle), the Sentence constraint, and the MinesweeperAI *)
(* knowledge base with add_knowledge and clean_knowledge.                  *)
(*                                                                         *)
(* A cell is a pair <<i, j>>.  A Sentence is a record [cells, count].      *)
(* The AI object is the record [moves_made, mines, safes, knowledge];      *)
(* knowledge is a sequence because the code keeps it in a Python list and  *)
(* walks it in list order.                                                 *)
(***************************************************************************)
EXTENDS Integers, Sequences, FiniteSets, TLC

\* ------------------------------------------------------------------ bounds
\* Largest grid of the any-count specification (Spec).
MaxHeight == 3
MaxWidth == 3
\* Largest count argument and number of calls of the any-count specification.
MaxCount == 1
MaxCalls == 2
\* Largest number of cells of a grid and number of calls of the true-count
\* specification (SpecBoard).
MaxBoardCells == 6
MaxBoardCalls == 3
\* Largest number of cells of a grid and number of calls of the specification
\* of all the public operations (SpecOps).
MaxOpsCells == 4
MaxOpsCalls == 2
\* Largest number of cells of a grid and largest count of the Sentence objects
\* of the specification of the Sentence methods (SpecSentence).
MaxSentenceCells == 3
MaxSentenceCount == 3
\* Largest number of cells of a grid and number of calls of the specification
\* of add_knowledge taken one loop iteration at a time (SpecSteps).
MaxStepCells == 4
MaxStepCalls == 3

VARIABLES
    height,      \* MinesweeperAI.height / Minesweeper.height
    width,       \* MinesweeperAI.width / Minesweeper.width
    board,       \* Minesweeper.board, as the set of cells holding a mine
    moves_made,  \* MinesweeperAI.moves_made
    mines,       \* MinesweeperAI.mines
    safes,       \* MinesweeperAI.safes
    knowledge,   \* MinesweeperAI.knowledge
    call,        \* the last call made on the AI: [op, cell, count]
    before,      \* the object of that call (the AI, or the Sentence) as it was
                 \* when the call started
    calls,       \* number of calls made so far
    returned,    \* what the last call returned
    sentence,    \* a Sentence object on its own, outside any knowledge base
    frame        \* where a running add_knowledge call stands: [pc, i, j, inferred]

vars ==
    <<height, width, board, moves_made, mines, safes, knowledge, call, before,
      calls, returned, sentence, frame>>

\* Python's None.
None == << >>

\* No add_knowledge call is running.
Idle == [pc |-> "idle", i |-> 0, j |-> 0, inferred |-> << >>]

\* ------------------------------------------------------------------- grid
\* range(h) x range(w)
Grid(h, w) == (0 .. h - 1) \X (0 .. w - 1)

\* The loops "for i in range(c[0]-1, c[0]+2): for j in range(c[1]-1, c[1]+2)"
\* with the bounds test and the "(i, j) != cell" test.
Neighbours(cell, h, w) ==
    { n \in ((cell[1] - 1) .. (cell[1] + 1)) \X ((cell[2] - 1) .. (cell[2] + 1)) :
        /\ n # cell
        /\ 0 <= n[1] /\ n[1] < h
        /\ 0 <= n[2] /\ n[2] < w }

\* Minesweeper.is_mine
is_mine(b, cell) == cell \in b

\* Minesweeper.nearby_mines
nearby_mines(b, cell, h, w) ==
    Cardinality({ n \in Neighbours(cell, h, w) : is_mine(b, n) })

\* --------------------------------------------------------------- Sentence
\* Sentence.__init__
Sentence(cells, count) == [cells |-> cells, count |-> count]

\* Sentence.__eq__
SentenceEq(s, t) == s.cells = t.cells /\ s.count = t.count

\* known_mines with the comparison slipped from "==" to ">=".
known_mines_atleast(s) == IF Cardinality(s.cells) >= s.count THEN s.cells ELSE {}

\* known_mines with the comparison slipped from "==" to "<=".
known_mines_atmost(s) == IF Cardinality(s.cells) <= s.count THEN s.cells ELSE {}

\* Sentence.known_mines
known_mines(s) == IF Cardinality(s.cells) = s.count THEN s.cells ELSE {}

\* known_safes with the emptiness test slipped from "!=" to "==".
known_safes_empty(s) ==
    IF s.count = 0 /\ Cardinality(s.cells) = 0 THEN s.cells ELSE {}

\* known_safes with the comparison slipped from "== 0" to "<= 0".
known_safes_le(s) ==
    IF s.count <= 0 /\ Cardinality(s.cells) # 0 THEN s.cells ELSE {}

\* Sentence.known_safes
known_safes(s) ==
    IF s.count = 0 /\ Cardinality(s.cells) # 0 THEN s.cells ELSE {}

\* Sentence.mark_mine without the test "if cell in self.cells".
SentenceMarkMine_always(s, cell) ==
    [cells |-> s.cells \ {cell}, count |-> s.count - 1]

\* Sentence.mark_mine without "self.count -= 1".
SentenceMarkMine_keepcount(s, cell) ==
    IF cell \in s.cells
    THEN [cells |-> s.cells \ {cell}, count |-> s.count]
    ELSE s

\* Sentence.mark_mine
SentenceMarkMine(s, cell) ==
    IF cell \in s.cells
    THEN [cells |-> s.cells \ {cell}, count |-> s.count - 1]
    ELSE s

\* Sentence.mark_safe with the "self.count -= 1" of mark_mine copied into it.
SentenceMarkSafe_decrement(s, cell) ==
    IF cell \in s.cells
    THEN [cells |-> s.cells \ {cell}, count |-> s.count - 1]
    ELSE s

\* Sentence.mark_safe
SentenceMarkSafe(s, cell) ==
    IF cell \in s.cells
    THEN [cells |-> s.cells \ {cell}, count |-> s.count]
    ELSE s

\* ---------------------------------------------------------- MinesweeperAI
\* MinesweeperAI.__init__
NewAI ==
    [moves_made |-> {}, mines |-> {}, safes |-> {}, knowledge |-> <<>>]

\* MinesweeperAI.mark_mine with "self.mines = {cell}" for "self.mines.add(cell)".
mark_mine_replace(ai, cell) ==
    [ai EXCEPT
        !.mines = {cell},
        !.knowledge = [i \in DOMAIN @ |-> SentenceMarkMine(@[i], cell)]]

\* MinesweeperAI.mark_mine
mark_mine(ai, cell) ==
    [ai EXCEPT
        !.mines = @ \cup {cell},
        !.knowledge = [i \in DOMAIN @ |-> SentenceMarkMine(@[i], cell)]]

\* MinesweeperAI.mark_safe without the loop over self.knowledge.
mark_safe_setonly(ai, cell) == [ai EXCEPT !.safes = @ \cup {cell}]

\* MinesweeperAI.mark_safe
mark_safe(ai, cell) ==
    [ai EXCEPT
        !.safes = @ \cup {cell},
        !.knowledge = [i \in DOMAIN @ |-> SentenceMarkSafe(@[i], cell)]]

\* "for cell in mines: self.mark_mine(cell)" over a collected list of cells
RECURSIVE MarkMines(_, _)
MarkMines(ai, cells) ==
    IF cells = {} THEN ai
    ELSE LET c == CHOOSE x \in cells : TRUE
         IN  MarkMines(mark_mine(ai, c), cells \ {c})

\* "for cell in safe_cells: self.mark_safe(cell)" over a collected list of cells
RECURSIVE MarkSafes(_, _)
MarkSafes(ai, cells) ==
    IF cells = {} THEN ai
    ELSE LET c == CHOOSE x \in cells : TRUE
         IN  MarkSafes(mark_safe(ai, c), cells \ {c})

\* Lines 284-301 (and the same code at lines 236-253 for the new sentence):
\* the cells of knowledge[i].known_safes() that are not yet safe are marked
\* safe, then the cells of knowledge[i].known_mines() that are not yet mines
\* are marked as mines.  Both conditions are read from the sentence as it is at
\* that moment, so known_mines() sees the marking of the safes.
ResolveSentence(ai, i) ==
    LET s == ai.knowledge[i]
        safe_cells ==
            IF known_safes(s) # {}
            THEN { c \in known_safes(s) : c \notin ai.safes /\ c \notin ai.moves_made }
            ELSE {}
        ai1 == MarkSafes(ai, safe_cells)
        s1 == ai1.knowledge[i]
        mine_cells ==
            IF known_mines(s1) # {}
            THEN { c \in known_mines(s1) : c \notin ai1.mines /\ c \notin ai1.moves_made }
            ELSE {}
    IN  MarkMines(ai1, mine_cells)

\* The new sentence without "count -= 1" for the neighbours that are known mines.
NewSentence_nolower(ai, cell, count, h, w) ==
    LET sur == { n \in Neighbours(cell, h, w) :
                    n \notin ai.moves_made /\ n \notin ai.safes }
    IN  Sentence(sur \ ai.mines, count)

\* Lines 217-232: the sentence built from the neighbours of cell.  A neighbour
\* is kept out when it is a move already made or a known safe; a neighbour that
\* is a known mine lowers the count by one and is kept out too.
NewSentence(ai, cell, count, h, w) ==
    LET sur == { n \in Neighbours(cell, h, w) :
                    n \notin ai.moves_made /\ n \notin ai.safes }
    IN  Sentence(sur \ ai.mines, count - Cardinality(sur \cap ai.mines))

\* Python's "==" between a set of cells and one cell (a tuple): values of
\* different types are never equal.
SetEqualsCell(cells, cell) == FALSE

\* Lines 274 and 277, "s1.cells in s2.cells": Python's membership test of a set
\* in a set.  The left operand is looked up as one element of the right operand,
\* whose elements are cells.
SetInSet(a, b) == \E x \in b : SetEqualsCell(a, x)

\* Lines 274-279: what one pair (s1, s2) adds to inferred_knowledges.
InferPair(s1, s2) ==
    IF SetInSet(s1.cells, s2.cells)
    THEN << Sentence(s2.cells \ s1.cells, s2.count - s1.count) >>
    ELSE IF SetInSet(s2.cells, s1.cells)
         THEN << Sentence(s1.cells \ s2.cells, s1.count - s2.count) >>
         ELSE << >>

\* Lines 269-279: the pairs (i, j), i < j, in the order of the two loops,
\* starting at the pair (i, j).
RECURSIVE InferFrom(_, _, _)
InferFrom(kb, i, j) ==
    IF i > Len(kb) THEN << >>
    ELSE IF j > Len(kb) THEN InferFrom(kb, i + 1, i + 2)
    ELSE InferPair(kb[i], kb[j]) \o InferFrom(kb, i, j + 1)

\* Lines 264-279
inferred_knowledges(kb) == InferFrom(kb, 1, 2)

\* Lines 282-302: "for sentence in kl", one pass in list order from index i.
RECURSIVE ResolveFrom(_, _)
ResolveFrom(ai, i) ==
    IF i > Len(ai.knowledge) THEN ai
    ELSE ResolveFrom(ResolveSentence(ai, i), i + 1)

\* list.remove(x): drops the first element equal to x (Sentence.__eq__).
ListRemove(kb, x) ==
    LET k == CHOOSE n \in 1 .. Len(kb) :
                /\ SentenceEq(kb[n], x)
                /\ \A m \in 1 .. (n - 1) : ~SentenceEq(kb[m], x)
    IN  SubSeq(kb, 1, k - 1) \o SubSeq(kb, k + 1, Len(kb))

\* MinesweeperAI.clean_knowledge: "for sentence in self.knowledge" walks the
\* list by position while the body removes from that same list, so after a
\* removal the position moves on over the element that slid into its place.
RECURSIVE CleanFrom(_, _)
CleanFrom(kb, i) ==
    IF i > Len(kb) THEN kb
    ELSE IF kb[i].cells = {}
         THEN CleanFrom(ListRemove(kb, kb[i]), i + 1)
         ELSE CleanFrom(kb, i + 1)

clean_knowledge(ai) == [ai EXCEPT !.knowledge = CleanFrom(@, 1)]

\* MinesweeperAI.add_knowledge, up to the append of the new sentence
\* (lines 212-233).
AppendObservation(ai, cell, count, h, w) ==
    LET ai1 == [ai EXCEPT !.moves_made = @ \cup {cell}]
        ai2 == mark_safe(ai1, cell)
    IN  [ai2 EXCEPT !.knowledge = Append(@, NewSentence(ai2, cell, count, h, w))]

\* MinesweeperAI.add_knowledge, from the new sentence's own conclusions to
\* the single pass over the knowledge base (lines 236-302).
Infer(ai) ==
    LET ai1 == ResolveSentence(ai, Len(ai.knowledge))
        ai2 == [ai1 EXCEPT !.knowledge = @ \o inferred_knowledges(@)]
    IN  ResolveFrom(ai2, 1)

\* MinesweeperAI.add_knowledge
add_knowledge(ai, cell, count, h, w) ==
    clean_knowledge(Infer(AppendObservation(ai, cell, count, h, w)))

\* add_knowledge and clean_knowledge hold no raise and no assert statement,
\* and no operation they use can fail: every call returns normally.
Raised == FALSE

\* ------------------------------------------------------------ state machine
\* The AI object held in the variables.
AI ==
    [moves_made |-> moves_made, mines |-> mines, safes |-> safes,
     knowledge |-> knowledge]

\* MinesweeperAI(height, width) on a board without mines; the count argument
\* of each call is chosen freely.
Init ==
    /\ height \in 1 .. MaxHeight
    /\ width \in 1 .. MaxWidth
    /\ board = {}
    /\ moves_made = NewAI.moves_made
    /\ mines = NewAI.mines
    /\ safes = NewAI.safes
    /\ knowledge = NewAI.knowledge
    /\ call = [op |-> "init", cell |-> <<0, 0>>, count |-> 0]
    /\ before = NewAI
    /\ calls = 0
    /\ returned = None
    /\ sentence = Sentence({}, 0)
    /\ frame = Idle

\* Minesweeper(height, width, mines) with any placement of the mines, and
\* MinesweeperAI(height, width).
InitBoard ==
    /\ height \in 1 .. MaxBoardCells
    /\ width \in 1 .. MaxBoardCells
    /\ height * width <= MaxBoardCells
    /\ board \in SUBSET Grid(height, width)
    /\ moves_made = NewAI.moves_made
    /\ mines = NewAI.mines
    /\ safes = NewAI.safes
    /\ knowledge = NewAI.knowledge
    /\ call = [op |-> "init", cell |-> <<0, 0>>, count |-> 0]
    /\ before = NewAI
    /\ calls = 0
    /\ returned = None
    /\ sentence = Sentence({}, 0)
    /\ frame = Idle

\* One call ai.add_knowledge(cell, count).
Observe(cell, count) ==
    LET ai == add_knowledge(AI, cell, count, height, width)
    IN  /\ moves_made' = ai.moves_made
        /\ mines' = ai.mines
        /\ safes' = ai.safes
        /\ knowledge' = ai.knowledge
        /\ call' = [op |-> "add_knowledge", cell |-> cell, count |-> count]
        /\ before' = AI
        /\ calls' = calls + 1
        /\ returned' = None
        /\ UNCHANGED <<height, width, board, sentence, frame>>

\* add_knowledge with any in-grid cell and any count.
AddObservation(cell, count) ==
    /\ calls < MaxCalls
    /\ Observe(cell, count)

\* The game loop's call: a cell that is not a mine is revealed and
\* add_knowledge gets the board's nearby_mines of it.
Reveal(cell) ==
    /\ calls < MaxBoardCalls
    /\ ~is_mine(board, cell)
    /\ Observe(cell, nearby_mines(board, cell, height, width))

Next ==
    \E cell \in Grid(height, width), count \in 0 .. MaxCount :
        AddObservation(cell, count)

NextBoard ==
    \E cell \in Grid(height, width) : Reveal(cell)

Spec == Init /\ [][Next]_vars

SpecBoard == InitBoard /\ [][NextBoard]_vars

\* ------------------------------------------- all the public operations
\* make_safe_move without "- self.moves_made".
make_safe_move_all(ai) == IF ai.safes = {} THEN {None} ELSE ai.safes

\* MinesweeperAI.make_safe_move: the values the call can return
\* (random.choice picks any element of the list).
make_safe_move(ai) ==
    IF ai.safes \ ai.moves_made = {}
    THEN {None}
    ELSE ai.safes \ ai.moves_made

\* make_random_move without "and (i, j) not in self.mines".
make_random_move_nomines(ai, h, w) ==
    LET possible_moves == { c \in Grid(h, w) : c \notin ai.moves_made }
    IN  IF Cardinality(possible_moves) = 0 THEN {None} ELSE possible_moves

\* MinesweeperAI.make_random_move: the values the call can return.
make_random_move(ai, h, w) ==
    LET possible_moves ==
            { c \in Grid(h, w) : c \notin ai.moves_made /\ c \notin ai.mines }
    IN  IF Cardinality(possible_moves) = 0 THEN {None} ELSE possible_moves

\* MinesweeperAI(height, width); the operations are called in any order with
\* any in-grid cell and any count.
InitOps ==
    /\ height \in 1 .. MaxOpsCells
    /\ width \in 1 .. MaxOpsCells
    /\ height * width <= MaxOpsCells
    /\ board = {}
    /\ moves_made = NewAI.moves_made
    /\ mines = NewAI.mines
    /\ safes = NewAI.safes
    /\ knowledge = NewAI.knowledge
    /\ call = [op |-> "init", cell |-> <<0, 0>>, count |-> 0]
    /\ before = NewAI
    /\ calls = 0
    /\ returned = None
    /\ sentence = Sentence({}, 0)
    /\ frame = Idle

\* The AI object ai replaces the one held in the variables, as the effect of
\* the call op(cell) that returned ret.
Called(op, cell, ai, ret) ==
    /\ calls < MaxOpsCalls
    /\ moves_made' = ai.moves_made
    /\ mines' = ai.mines
    /\ safes' = ai.safes
    /\ knowledge' = ai.knowledge
    /\ call' = [op |-> op, cell |-> cell, count |-> 0]
    /\ before' = AI
    /\ calls' = calls + 1
    /\ returned' = ret
    /\ UNCHANGED <<height, width, board, sentence, frame>>

\* ai.add_knowledge(cell, count)
OpsAddKnowledge(cell, count) ==
    /\ calls < MaxOpsCalls
    /\ Observe(cell, count)

\* ai.mark_mine(cell)
MarkMine(cell) == Called("mark_mine", cell, mark_mine(AI, cell), None)

\* ai.mark_safe(cell)
MarkSafe(cell) == Called("mark_safe", cell, mark_safe(AI, cell), None)

\* ai.make_safe_move()
MakeSafeMove ==
    \E ret \in make_safe_move(AI) : Called("make_safe_move", <<0, 0>>, AI, ret)

\* ai.make_random_move()
MakeRandomMove ==
    \E ret \in make_random_move(AI, height, width) :
        Called("make_random_move", <<0, 0>>, AI, ret)

NextOps ==
    \/ \E cell \in Grid(height, width), count \in 0 .. MaxCount :
            OpsAddKnowledge(cell, count)
    \/ \E cell \in Grid(height, width) : MarkMine(cell)
    \/ \E cell \in Grid(height, width) : MarkSafe(cell)
    \/ MakeSafeMove
    \/ MakeRandomMove

SpecOps == InitOps /\ [][NextOps]_vars

\* ------------------------------------------------- the Sentence methods
\* Sentence(cells, count) with any cells of the grid and any count from -1 up;
\* its methods are called in any order.
InitSentence ==
    /\ height \in 1 .. MaxSentenceCells
    /\ width \in 1 .. MaxSentenceCells
    /\ height * width <= MaxSentenceCells
    /\ board = {}
    /\ moves_made = NewAI.moves_made
    /\ mines = NewAI.mines
    /\ safes = NewAI.safes
    /\ knowledge = NewAI.knowledge
    /\ call = [op |-> "init", cell |-> <<0, 0>>, count |-> 0]
    /\ calls = 0
    /\ returned = None
    /\ \E cells \in SUBSET Grid(height, width), count \in -1 .. MaxSentenceCount :
         /\ sentence = Sentence(cells, count)
         /\ before = sentence
    /\ frame = Idle

\* The Sentence object s replaces the one held in sentence, as the effect of
\* the call op(cell) that returned ret.
SentenceCalled(op, cell, s, ret) ==
    /\ sentence' = s
    /\ call' = [op |-> op, cell |-> cell, count |-> 0]
    /\ before' = sentence
    /\ returned' = ret
    /\ UNCHANGED <<height, width, board, moves_made, mines, safes, knowledge,
                   calls, frame>>

\* sentence.known_mines()
KnownMines ==
    SentenceCalled("Sentence.known_mines", <<0, 0>>, sentence, known_mines(sentence))

\* sentence.known_safes()
KnownSafes ==
    SentenceCalled("Sentence.known_safes", <<0, 0>>, sentence, known_safes(sentence))

\* sentence.mark_mine(cell)
SentenceMarkMineCall(cell) ==
    SentenceCalled("Sentence.mark_mine", cell, SentenceMarkMine(sentence, cell), None)

\* sentence.mark_safe(cell)
SentenceMarkSafeCall(cell) ==
    SentenceCalled("Sentence.mark_safe", cell, SentenceMarkSafe(sentence, cell), None)

NextSentence ==
    \/ KnownMines
    \/ KnownSafes
    \/ \E cell \in Grid(height, width) : SentenceMarkMineCall(cell)
    \/ \E cell \in Grid(height, width) : SentenceMarkSafeCall(cell)

SpecSentence == InitSentence /\ [][NextSentence]_vars

\* ------------------------------- add_knowledge, one loop iteration at a time
\* MinesweeperAI(height, width); add_knowledge is called with any in-grid cell
\* and any count.
InitSteps ==
    /\ height \in 1 .. MaxStepCells
    /\ width \in 1 .. MaxStepCells
    /\ height * width <= MaxStepCells
    /\ board = {}
    /\ moves_made = NewAI.moves_made
    /\ mines = NewAI.mines
    /\ safes = NewAI.safes
    /\ knowledge = NewAI.knowledge
    /\ call = [op |-> "init", cell |-> <<0, 0>>, count |-> 0]
    /\ before = NewAI
    /\ calls = 0
    /\ returned = None
    /\ sentence = Sentence({}, 0)
    /\ frame = Idle

\* The running call goes on: the AI object becomes ai and the call stands at f.
Stepped(ai, f) ==
    /\ moves_made' = ai.moves_made
    /\ mines' = ai.mines
    /\ safes' = ai.safes
    /\ knowledge' = ai.knowledge
    /\ frame' = f
    /\ UNCHANGED <<height, width, board, call, before, calls, returned, sentence>>

\* A clean-up walk that moves on only after a removal.
CleanNext_afterremoval(kb, i) == IF kb[i].cells = {} THEN i + 1 ELSE i

\* "for sentence in self.knowledge" in clean_knowledge: the position the walk
\* takes after the element at position i, removed or not.
CleanNext(kb, i) == i + 1

\* Lines 212-233: the call starts, records the move, marks the cell safe and
\* appends the new sentence.
StepAppend(cell, count) ==
    LET ai == AppendObservation(AI, cell, count, height, width)
    IN  /\ frame.pc = "idle"
        /\ calls < MaxStepCalls
        /\ moves_made' = ai.moves_made
        /\ mines' = ai.mines
        /\ safes' = ai.safes
        /\ knowledge' = ai.knowledge
        /\ call' = [op |-> "add_knowledge", cell |-> cell, count |-> count]
        /\ before' = AI
        /\ calls' = calls + 1
        /\ returned' = None
        /\ frame' = [Idle EXCEPT !.pc = "appended"]
        /\ UNCHANGED <<height, width, board, sentence>>

\* Lines 236-264: the conclusions of the new sentence alone.
StepResolveNew ==
    /\ frame.pc = "appended"
    /\ Stepped(ResolveSentence(AI, Len(knowledge)),
               [pc |-> "infer", i |-> 1, j |-> 2, inferred |-> << >>])

\* Lines 269-281: one turn of the loops over the pairs of sentences; when
\* they are done, self.knowledge.extend(inferred_knowledges).
StepInfer ==
    /\ frame.pc = "infer"
    /\ IF frame.i > Len(knowledge)
       THEN Stepped([AI EXCEPT !.knowledge = @ \o frame.inferred],
                    [pc |-> "resolve", i |-> 1, j |-> 0, inferred |-> << >>])
       ELSE IF frame.j > Len(knowledge)
            THEN Stepped(AI, [frame EXCEPT !.i = @ + 1, !.j = frame.i + 2])
            ELSE Stepped(AI, [frame EXCEPT
                     !.j = @ + 1,
                     !.inferred = @ \o InferPair(knowledge[frame.i], knowledge[frame.j])])

\* Lines 283-302: one turn of "for sentence in kl".
StepResolve ==
    /\ frame.pc = "resolve"
    /\ IF frame.i > Len(knowledge)
       THEN Stepped(AI, [frame EXCEPT !.pc = "clean", !.i = 1])
       ELSE Stepped(ResolveSentence(AI, frame.i), [frame EXCEPT !.i = @ + 1])

\* Lines 305-313: one turn of the loop of clean_knowledge; when it is done the
\* call returns.
StepClean ==
    /\ frame.pc = "clean"
    /\ IF frame.i > Len(knowledge)
       THEN Stepped(AI, Idle)
       ELSE IF knowledge[frame.i].cells = {}
            THEN Stepped([AI EXCEPT !.knowledge = ListRemove(@, knowledge[frame.i])],
                         [frame EXCEPT !.i = CleanNext(knowledge, frame.i)])
            ELSE Stepped(AI, [frame EXCEPT !.i = CleanNext(knowledge, frame.i)])

\* The steps of a call that has started.
StepRun ==
    \/ StepResolveNew
    \/ StepInfer
    \/ StepResolve
    \/ StepClean

NextSteps ==
    \/ \E cell \in Grid(height, width), count \in 0 .. MaxCount :
            StepAppend(cell, count)
    \/ StepRun

\* A call that has started keeps running: the code is one thread with no
\* suspension point.
SpecSteps == InitSteps /\ [][NextSteps]_vars /\ WF_vars(StepRun)

\* ------------------------------------------------------------------ claims
\* The sentences the knowledge base holds.
Sentences == { knowledge[i] : i \in DOMAIN knowledge }

\* C1: when every call reveals a cell that is not a mine with the board's
\* true count, every cell of mines is a mine of the board and no cell of
\* safes is one.
C1_Soundness ==
    /\ \A c \in mines : is_mine(board, c)
    /\ \A c \in safes : ~is_mine(board, c)

\* A call concluded both a mine and a safe cell that is not a move made.
C1_Witness ==
    /\ call.op = "add_knowledge"
    /\ mines # {}
    /\ safes \ moves_made # {}
    /\ mines \ before.mines # {}

\* C2: safes and mines are disjoint after every add_knowledge call, whatever
\* the cells and counts of the calls.
C2_Disjoint == safes \cap mines = {}

\* C3: after every call no sentence of the knowledge base has a known_mines()
\* or known_safes() cell that is not already in mines / safes.
C3_FixedPoint ==
    \A s \in Sentences :
        /\ known_mines(s) \subseteq mines
        /\ known_safes(s) \subseteq safes

\* C4: when the knowledge base holds sentences A and B at different places
\* with A.cells a subset of B.cells, what follows from
\* (B.cells - A.cells, B.count - A.count) has been concluded when the call
\* returns.
C4_SubsetSubtraction ==
    \A i, j \in DOMAIN knowledge :
        (i # j /\ knowledge[i].cells \subseteq knowledge[j].cells) =>
            LET d == Sentence(knowledge[j].cells \ knowledge[i].cells,
                              knowledge[j].count - knowledge[i].count)
            IN  /\ known_mines(d) \subseteq mines
                /\ known_safes(d) \subseteq safes

\* C5: after every call no sentence of the knowledge base has an empty cell
\* set.
C5_NoEmptySentence == \A s \in Sentences : s.cells # {}

\* C6: after every call no two entries of the knowledge base are equal
\* sentences.
C6_NoDuplicates ==
    \A i, j \in DOMAIN knowledge :
        i # j => ~SentenceEq(knowledge[i], knowledge[j])

\* C7: no cell of safes or mines is a cell of a sentence of the knowledge
\* base, nor of the sentence the last call built.
C7_ResolvedLeaveSentences ==
    /\ \A s \in Sentences : s.cells \cap (safes \cup mines) = {}
    /\ call.op = "add_knowledge" =>
         LET ai == AppendObservation(before, call.cell, call.count, height, width)
         IN  ai.knowledge[Len(ai.knowledge)].cells \cap (ai.safes \cup ai.mines) = {}

\* The knowledge base holds a sentence with cells while cells other than the
\* moves made are resolved, and the last call built its sentence next to
\* cells resolved before it.
C7_Witness ==
    /\ call.op = "add_knowledge"
    /\ \E s \in Sentences : s.cells # {}
    /\ (safes \cup mines) \ moves_made # {}
    /\ Neighbours(call.cell, height, width) \cap (before.safes \cup before.mines) # {}

\* C8: with true counts every sentence of the knowledge base has
\* 0 <= count <= |cells|.
C8_CountInRange ==
    \A s \in Sentences : 0 <= s.count /\ s.count <= Cardinality(s.cells)

\* The last call marked a mine, and a sentence that held it has one cell and
\* one mine less and still has cells.
C8_Witness ==
    /\ call.op = "add_knowledge"
    /\ \E i \in DOMAIN before.knowledge, s \in Sentences, c \in mines \ before.mines :
         /\ c \in before.knowledge[i].cells
         /\ s.cells # {}
         /\ s.cells \subseteq before.knowledge[i].cells \ {c}
         /\ s.count = before.knowledge[i].count - 1

\* C9: a call never returns normally leaving a sentence with a count below 0
\* or above its number of cells in the knowledge base.
C9_InconsistencySurfaced ==
    (\E s \in Sentences : s.count < 0 \/ s.count > Cardinality(s.cells)) => Raised

\* C10: add_knowledge(cell, 0) on an AI with an empty knowledge base and no
\* known mines leaves every in-grid neighbour of cell in safes.
C10_ZeroCount ==
    ( /\ call.op = "add_knowledge"
      /\ call.count = 0
      /\ before.knowledge = << >>
      /\ before.mines = {} )
    => Neighbours(call.cell, height, width) \subseteq safes

\* The call was add_knowledge((1, 1), 0) on a new 3x3 AI: 8 neighbours.
C10_Witness ==
    /\ call = [op |-> "add_knowledge", cell |-> <<1, 1>>, count |-> 0]
    /\ before = NewAI
    /\ Cardinality(Neighbours(call.cell, height, width)) = 8
    /\ Cardinality(safes) = 9

\* C11: in every state and for every cell c, mark_safe(c) called twice leaves
\* safes, mines and every sentence as mark_safe(c) called once does, and so
\* does mark_mine(c).
C11_Idempotent ==
    \A c \in Grid(height, width) :
        /\ mark_safe(mark_safe(AI, c), c) = mark_safe(AI, c)
        /\ mark_mine(mark_mine(AI, c), c) = mark_mine(AI, c)

\* mark_mine(c) was called while a sentence held c, and lowered its count.
C11_Witness ==
    /\ call.op = "mark_mine"
    /\ \E i \in DOMAIN before.knowledge :
         /\ call.cell \in before.knowledge[i].cells
         /\ knowledge[i].count = before.knowledge[i].count - 1

\* C12: no step of mark_mine, mark_safe, add_knowledge, make_safe_move or
\* make_random_move takes a cell out of moves_made, safes or mines.
C12_OnlyGrow ==
    [][ /\ moves_made \subseteq moves_made'
        /\ safes \subseteq safes'
        /\ mines \subseteq mines' ]_vars

\* The last call added a cell to each of the three sets, after an earlier
\* call had put cells into them.
C12_Witness ==
    /\ before.moves_made # {} /\ before.moves_made # moves_made
    /\ before.safes # {} /\ before.safes # safes
    /\ before.mines # {} /\ before.mines # mines

\* C13: make_safe_move returns a cell of safes - moves_made when there is one
\* and None exactly when there is none, and leaves the AI object as it was.
C13_SafeMove ==
    call.op = "make_safe_move" =>
        /\ before.safes \ before.moves_made # {} =>
               returned \in before.safes \ before.moves_made
        /\ returned = None <=> before.safes \ before.moves_made = {}
        /\ AI = before

\* make_safe_move returned a cell while moves had been made.
C13_Witness ==
    /\ call.op = "make_safe_move"
    /\ returned # None
    /\ moves_made # {}

\* C14: make_random_move returns an in-grid cell that is neither a move made
\* nor a known mine when there is one, and None exactly when moves_made and
\* mines cover the grid.
C14_RandomMove ==
    call.op = "make_random_move" =>
        LET free == Grid(height, width) \ (before.moves_made \cup before.mines)
        IN  /\ free # {} => returned \in free
            /\ returned = None <=> free = {}

\* make_random_move returned a cell of a grid that holds a known mine.
C14_Witness ==
    /\ call.op = "make_random_move"
    /\ returned # None
    /\ mines # {}
    /\ moves_made # {}

\* C15: known_safes() returns exactly cells when count is 0 and cells is not
\* empty, and the empty set otherwise: with count 0 and no cells, and with any
\* other count.
C15_KnownSafes ==
    call.op = "Sentence.known_safes" =>
        /\ (before.count = 0 /\ before.cells # {}) => returned = before.cells
        /\ (before.count = 0 /\ before.cells = {}) => returned = {}
        /\ before.count # 0 => returned = {}

\* known_safes() returned the cells of a sentence with count 0.
C15_Witness ==
    /\ call.op = "Sentence.known_safes"
    /\ before.count = 0
    /\ Cardinality(before.cells) >= 2
    /\ returned = before.cells

\* C16: known_mines() returns exactly cells when the number of cells is count,
\* and the empty set when it is not.
C16_KnownMines ==
    call.op = "Sentence.known_mines" =>
        /\ Cardinality(before.cells) = before.count => returned = before.cells
        /\ Cardinality(before.cells) # before.count => returned = {}

\* known_mines() returned the cells of a sentence with as many cells as mines.
C16_Witness ==
    /\ call.op = "Sentence.known_mines"
    /\ Cardinality(before.cells) = before.count
    /\ before.count >= 2
    /\ returned = before.cells

\* C17: Sentence.mark_mine(c) takes c out of cells and lowers count by one
\* when c is in cells, Sentence.mark_safe(c) takes c out of cells and keeps
\* count when c is in cells, and both keep cells and count when it is not.
C17_CellRemoval ==
    /\ call.op = "Sentence.mark_mine" =>
         IF call.cell \in before.cells
         THEN /\ sentence.cells = before.cells \ {call.cell}
              /\ sentence.count = before.count - 1
         ELSE sentence = before
    /\ call.op = "Sentence.mark_safe" =>
         IF call.cell \in before.cells
         THEN /\ sentence.cells = before.cells \ {call.cell}
              /\ sentence.count = before.count
         ELSE sentence = before

\* mark_safe(c) took c out of a sentence that keeps another cell.
C17_Witness ==
    /\ call.op = "Sentence.mark_safe"
    /\ call.cell \in before.cells
    /\ sentence.cells # {}
    /\ sentence.count = before.count

\* C18: every add_knowledge call, from any state and with any in-grid cell
\* and any count, comes to its end, and it ends with the AI object that
\* add_knowledge makes of the one it started with.
C18_Terminates ==
    /\ (frame.pc # "idle") ~> (frame.pc = "idle")
    /\ []( (frame.pc = "idle" /\ call.op = "add_knowledge") =>
             AI = add_knowledge(before, call.cell, call.count, height, width) )

\* A call that removed two sentences in its clean-up has returned.
C18_Witness ==
    /\ frame.pc = "idle"
    /\ call.op = "add_knowledge"
    /\ Len(before.knowledge) > Len(knowledge)

\* C19: the sentence add_knowledge(cell, count) appends has as its cells the
\* in-grid neighbours of cell that are not in moves_made, safes or mines, and
\* as its count the count given less the number of in-grid neighbours of cell
\* that are in mines.
C19_NewSentence ==
    frame.pc = "appended" =>
        LET near == Neighbours(call.cell, height, width)
        IN  knowledge[Len(knowledge)] =
                Sentence(near \ (before.moves_made \cup before.safes \cup before.mines),
                         call.count - Cardinality(near \cap before.mines))

\* C20: with true counts every sentence of the knowledge base has as its
\* count the number of board mines among its cells.
C20_SentencesTrue ==
    \A s \in Sentences : s.count = Cardinality(s.cells \cap board)

\* The last call was made next to a known mine, and the knowledge base holds
\* a sentence with a mine and a cell that is none.
C20_Witness ==
    /\ call.op = "add_knowledge"
    /\ Neighbours(call.cell, height, width) \cap before.mines # {}
    /\ \E s \in Sentences :
         /\ s.cells \cap board # {}
         /\ s.cells \ board # {}

====
